---------------------------- MODULE Spec2Model ----------------------------
(***************************************************************************)
(* Medallion ETL (src/etl.py, src/silver_etl.py): Bronze load, Silver      *)
(* build, Gold build and reconciliation over one relational store, driven  *)
(* by the command-line dispatch of etl.py.                                 *)
(*                                                                         *)
(* Modelling choices, all of them bounds on the data and none on the code: *)
(*  - a table is [exists, columns, rows]; rows is a sequence of records;   *)
(*  - pass-through columns that no filter, join key or aggregate reads     *)
(*    (customer_name, driver_name, pickup_location, drop_location,         *)
(*    mode_of_payment) are left out, and so is gold.route_performance,     *)
(*    which groups by two of them;                                         *)
(*  - every extract has the columns the code indexes, except that the      *)
(*    drivers extract may lack vehicle_type (the one column build_silver   *)
(*    tests for); natural keys are never empty cells;                      *)
(*  - every extract has at least one row: pandas types a column with no    *)
(*    value as text, and what the joins of build_gold do with a text key   *)
(*    against a numeric one is outside this model;                         *)
(*  - fares are whole numbers, so float() and NUMERIC agree;               *)
(*  - SQL row order, which the code leaves to the planner, is the nested   *)
(*    loop order of the FROM clause;                                       *)
(*  - datetime.now() is the number of the invocation;                      *)
(*  - the store and the file system do not fail: the only exceptions are   *)
(*    the ones the code raises on the data (a relation or column that      *)
(*    does not exist).                                                     *)
(***************************************************************************)
EXTENDS Integers, Sequences, FiniteSets, TLC

VARIABLES
    source,              \* what the source system delivers, per entity
    present,             \* the entities whose extract is in BRONZE_DIR
    bronze, silver,      \* schema -> table
    gold,
    audit_rejected_rows, \* audit.rejected_rows
    audit_reconciliation_log, \* audit.reconciliation_log
    reconciliation_csv,  \* log/gold/reconciliation.csv
    dq_csv,              \* log/silver/<table>_dq.csv
    snapshot_log,        \* log/<layer>/<table>.csv and the line printed for it
    step,                \* argv of the running invocation
    pc,                  \* the stage about to run, or "idle"
    ran,                 \* the stages entered by the current (or last) invocation
    exit,                \* how the last invocation ended
    runs,                \* invocations so far
    built_from           \* history: the Bronze tables the last build_silver read

vars == <<source, present, bronze, silver, gold, audit_rejected_rows,
          audit_reconciliation_log, reconciliation_csv, dq_csv, snapshot_log,
          step, pc, ran, exit, runs, built_from>>

store == <<bronze, silver, gold>>
audit == <<audit_rejected_rows, audit_reconciliation_log, reconciliation_csv,
           dq_csv, snapshot_log>>

----------------------------------------------------------------------------
(* Bounds                                                                  *)

MaxRows == 2        \* rows of one extract
MaxTotalRows == 5   \* rows of the four extracts together
MaxRuns == 2        \* invocations in one behaviour

----------------------------------------------------------------------------
(* Values                                                                  *)

NULL == -1                  \* NaN / SQL NULL in a numeric column
NaT == <<0, 0, 0>>          \* pandas NaT / SQL NULL in a date column
SQLNULL == "NULL"           \* SQL NULL in a boolean column

BRONZE_FILES == <<"customers", "drivers", "trips", "payments">>
Entities == {BRONZE_FILES[i] : i \in 1..Len(BRONZE_FILES)}

VALID_VEHICLE_TYPES == {"Sedan", "SUV", "Hatchback", "Mini"}

NoTable == [exists |-> FALSE, columns |-> {}, rows |-> <<>>]
Table(cols, rows) == [exists |-> TRUE, columns |-> cols, rows |-> rows]

CustomerColumns == {"customer_id", "signup_date"}
DriverColumns == {"driver_id", "vehicle_type"}
TripColumns == {"trip_id", "customer_id", "driver_id", "trip_fare"}
PaymentColumns == {"payment_id", "trip_id", "trip_fare"}

----------------------------------------------------------------------------
(* pandas                                                                  *)

\* The rows of df at the indices in keep, in order.
RowsWhere(df, keep) ==
    LET F[i \in 0..Len(df)] ==
            IF i = 0 THEN <<>>
            ELSE IF i \in keep THEN Append(F[i - 1], df[i]) ELSE F[i - 1]
    IN F[Len(df)]

\* drop_duplicates with keep="last": the variant that keeps the other row.
drop_duplicates_keep_last(df, key) ==
    RowsWhere(df, {i \in 1..Len(df) : \A j \in (i + 1)..Len(df) : df[j][key] # df[i][key]})

\* DataFrame.drop_duplicates(subset=key), keep="first".
drop_duplicates(df, key) ==
    RowsWhere(df, {i \in 1..Len(df) : \A j \in 1..(i - 1) : df[j][key] # df[i][key]})

\* df[col] as the set of its values.
Column(df, col) == {df[i][col] : i \in 1..Len(df)}

\* df[df[col].isin(values)]
isin(df, col, values) == SelectSeq(df, LAMBDA r : r[col] \in values)

\* pd.to_numeric(errors="coerce") on one cell.
NumericText == [s \in {"10", "20"} |-> IF s = "10" THEN 10 ELSE 20]
to_numeric(cell) == IF cell \in DOMAIN NumericText THEN NumericText[cell] ELSE NULL

\* pd.to_datetime(errors="coerce") on one cell.
DateText == [s \in {"2024-01-10"} |-> <<2024, 1, 10>>]
to_datetime(cell) == IF cell \in DOMAIN DateText THEN DateText[cell] ELSE NaT

\* df[col] = pd.to_datetime(df[col], errors="coerce") when numeric is FALSE,
\* df[col] = pd.to_numeric(df[col], errors="coerce") when it is TRUE.
Coerce(df, col, numeric) ==
    LET F[i \in 0..Len(df)] ==
            IF i = 0 THEN <<>>
            ELSE Append(F[i - 1],
                        [df[i] EXCEPT ![col] = IF numeric THEN to_numeric(@)
                                               ELSE to_datetime(@)])
    IN F[Len(df)]

RECURSIVE SumSeq(_)
SumSeq(s) == IF s = <<>> THEN 0 ELSE Head(s) + SumSeq(Tail(s))

\* The null of a column: as read_csv reads an empty cell of an extract (text
\* columns stay text in Bronze), and after the Silver type coercions.
RawNull(col) ==
    IF col \in {"signup_date", "vehicle_type", "trip_fare"} THEN "" ELSE NULL
NullOf(col) ==
    IF col = "signup_date" THEN NaT
    ELSE IF col = "vehicle_type" THEN ""
    ELSE NULL

\* df.isna().sum().sum(): the null cells of a frame.
isna_sum(df, cols) ==
    SumSeq([i \in 1..Len(df) |->
              Cardinality({c \in cols : df[i][c] = NullOf(c)})])

\* df[col].isna().sum()
isna_sum_col(df, col) == Len(SelectSeq(df, LAMBDA r : r[col] = NullOf(col)))

\* DataFrame.to_csv(index=False): one tuple of cells per row, in column
\* order; a null is written as the empty cell <<>>, a value v as <<v>>.
ColumnOrder(table) ==
    IF table = "customers" THEN <<"customer_id", "signup_date">>
    ELSE IF table = "drivers" THEN <<"driver_id", "vehicle_type">>
    ELSE IF table = "trips" THEN <<"trip_id", "customer_id", "driver_id", "trip_fare">>
    ELSE <<"payment_id", "trip_id", "trip_fare">>

to_csv(df, cols, table, typed) ==
    LET order == SelectSeq(ColumnOrder(table), LAMBDA c : c \in cols)
        null(c) == IF typed THEN NullOf(c) ELSE RawNull(c)
        cell(r, c) == IF r[c] = null(c) THEN <<>> ELSE <<r[c]>>
        F[i \in 0..Len(df)] ==
            IF i = 0 THEN <<>>
            ELSE Append(F[i - 1],
                        [k \in 1..Len(order) |-> cell(df[i], order[k])])
    IN [header |-> order, lines |-> F[Len(df)]]

\* md5_checksum(path): the digest stands for the bytes it was computed from.
md5_checksum(file) == <<"md5", file>>

\* log_rows_and_checksum(df, layer, table): the file written and the line printed.
log_rows_and_checksum(df, cols, table, typed) ==
    LET file == to_csv(df, cols, table, typed)
    IN [written |-> TRUE, file |-> file, rows |-> Len(df),
        checksum |-> md5_checksum(file)]

NoSnapshot ==
    [written |-> FALSE, file |-> [header |-> <<>>, lines |-> <<>>], rows |-> 0,
     checksum |-> <<"md5", [header |-> <<>>, lines |-> <<>>]>>]

\* log_dq(table, missing, invalid): the row appended to audit.rejected_rows.
log_dq(table, missing, invalid, now) ==
    [table_name |-> table, missing_values |-> missing,
     invalid_values |-> invalid, processed_at |-> now]

----------------------------------------------------------------------------
(* Silver: the frames build_silver computes from the four Bronze tables    *)

\* Dedupe by PKs.
dedupe_by_pks(b) ==
    [customers |-> drop_duplicates(b.customers.rows, "customer_id"),
     drivers   |-> drop_duplicates(b.drivers.rows, "driver_id"),
     trips     |-> drop_duplicates(b.trips.rows, "trip_id"),
     payments  |-> drop_duplicates(b.payments.rows, "payment_id")]

\* Types.
enforce_types(df) ==
    [df EXCEPT !.customers = Coerce(@, "signup_date", FALSE),
               !.trips     = Coerce(@, "trip_fare", TRUE),
               !.payments  = Coerce(@, "trip_fare", TRUE)]

\* Enum normalization.
enum_normalization(df, driver_columns) ==
    IF "vehicle_type" \in driver_columns
    THEN [df EXCEPT !.drivers = isin(@, "vehicle_type", VALID_VEHICLE_TYPES)]
    ELSE df

\* The three FK filters run side by side, each on the frames as they were
\* before any of them: the variant the cascade rules out.
fk_checks_parallel(df) ==
    LET trips_c  == isin(df.trips, "customer_id", Column(df.customers, "customer_id"))
        trips_d  == isin(trips_c, "driver_id", Column(df.drivers, "driver_id"))
        payments == isin(df.payments, "trip_id", Column(df.trips, "trip_id"))
    IN [df EXCEPT !.trips = trips_d, !.payments = payments]

\* FK checks, each on the result of the one before.
fk_checks(df) ==
    LET trips_c  == isin(df.trips, "customer_id", Column(df.customers, "customer_id"))
        trips_d  == isin(trips_c, "driver_id", Column(df.drivers, "driver_id"))
        payments == isin(df.payments, "trip_id", Column(trips_d, "trip_id"))
    IN [df EXCEPT !.trips = trips_d, !.payments = payments]

silver_frames(b) ==
    fk_checks(enum_normalization(enforce_types(dedupe_by_pks(b)),
                                 b.drivers.columns))

\* DQ checks: the four rows log_dq appends, in call order.
dq_checks(df, driver_columns, now) ==
    <<log_dq("customers", isna_sum(df.customers, CustomerColumns), 0, now),
      log_dq("drivers", isna_sum(df.drivers, driver_columns), 0, now),
      log_dq("trips", 0, isna_sum_col(df.trips, "trip_fare"), now),
      log_dq("payments", 0, isna_sum_col(df.payments, "trip_fare"), now)>>

ColumnsOf(b, e) == b[e].columns

\* to_sql with if_exists="append": the rows added to the table that is there
\* when it has the frame's columns.
to_sql_append(existing, columns, df) ==
    Table(columns, IF existing.exists /\ existing.columns = columns
                   THEN existing.rows \o df ELSE df)

\* DataFrame.to_sql(..., if_exists="replace"): the table dropped and created
\* again from the frame.
to_sql(existing, columns, df) == Table(columns, df)

\* Save Silver.
save_silver(df, b, s) ==
    [e \in Entities |-> to_sql(s[e], ColumnsOf(b, e), df[e])]

----------------------------------------------------------------------------
(* Gold: the rows the INSERT ... SELECT statements of build_gold produce   *)

NonNull(xs) == SelectSeq(xs, LAMBDA x : x # NULL)
\* SUM wrapped in COALESCE(..., 0): the variant that never yields NULL.
SUM_coalesced(xs) == SumSeq(NonNull(xs))
\* SUM(x): NULL when no input is non-null.
SUM(xs) == IF NonNull(xs) = <<>> THEN NULL ELSE SumSeq(NonNull(xs))
\* AVG(x) as the fraction sum/n; NULL (n = 0) when no input is non-null.
AVG(xs) == [sum |-> SumSeq(NonNull(xs)), n |-> Len(NonNull(xs))]
\* COALESCE(SUM(x), 0)
COALESCE_SUM(xs) == IF SUM(xs) = NULL THEN 0 ELSE SUM(xs)

Fares(rows) ==
    LET F[i \in 0..Len(rows)] ==
            IF i = 0 THEN <<>> ELSE Append(F[i - 1], rows[i].trip_fare)
    IN F[Len(rows)]

\* Equality with no NULL: an absent operand compares unequal.
SqlEq_two_valued(a, b) == IF a = b /\ a # NULL THEN "true" ELSE "false"

\* a = b in SQL.
SqlEq(a, b) ==
    IF a = NULL \/ b = NULL THEN SQLNULL
    ELSE IF a = b THEN "true" ELSE "false"

\* silver.trips t JOIN silver.drivers d ON d.driver_id = t.driver_id
\* GROUP BY the driver's columns.
driver_performance(s) ==
    LET d == s.drivers.rows
        t == s.trips.rows
        groups == RowsWhere(d, {i \in 1..Len(d) : \A j \in 1..(i - 1) : d[j] # d[i]})
        joined(g) ==
            LET hits == isin(t, "driver_id", {g.driver_id})
                same == SelectSeq(d, LAMBDA r : r = g)
                F[i \in 0..Len(same)] ==
                    IF i = 0 THEN <<>> ELSE F[i - 1] \o hits
            IN F[Len(same)]
        row(g) ==
            [driver_id |-> g.driver_id, vehicle_type |-> g.vehicle_type,
             trips_count |-> Len(joined(g)),
             total_fare |-> SUM(Fares(joined(g))),
             avg_fare |-> AVG(Fares(joined(g)))]
        F[i \in 0..Len(groups)] ==
            IF i = 0 THEN <<>>
            ELSE IF joined(groups[i]) = <<>> THEN F[i - 1]
            ELSE Append(F[i - 1], row(groups[i]))
    IN F[Len(groups)]

NoCustomer == [customer_id |-> NULL, signup_date |-> NaT]
NoDriver == [driver_id |-> NULL, vehicle_type |-> ""]
NoPayment == [payment_id |-> NULL, trip_id |-> NULL, trip_fare |-> NULL]

\* LEFT JOIN: the matching rows, or one all-null row.
LeftJoin(hits, nulls) == IF hits = <<>> THEN <<nulls>> ELSE hits

\* DATE_TRUNC('month', d)::date
DATE_TRUNC_month(d) == IF d = NaT THEN NaT ELSE <<d[1], d[2], 1>>

fact_row(t, c, d, p) ==
    [trip_id |-> t.trip_id, customer_id |-> t.customer_id,
     signup_date |-> c.signup_date,
     signup_month |-> DATE_TRUNC_month(c.signup_date),
     driver_id |-> t.driver_id, vehicle_type |-> d.vehicle_type,
     trip_fare |-> t.trip_fare, paid_fare |-> p.trip_fare,
     fare_matches |-> SqlEq(p.trip_fare, t.trip_fare)]

\* silver.trips t LEFT JOIN customers c LEFT JOIN drivers d LEFT JOIN payments p
fact_trips_dashboard(s) ==
    LET t == s.trips.rows
        rowsOf(tr) ==
            LET cs == LeftJoin(isin(s.customers.rows, "customer_id", {tr.customer_id}),
                               NoCustomer)
                ds == LeftJoin(isin(s.drivers.rows, "driver_id", {tr.driver_id}),
                               NoDriver)
                ps == LeftJoin(isin(s.payments.rows, "trip_id", {tr.trip_id}),
                               NoPayment)
                nd == Len(ds)
                np == Len(ps)
                G[k \in 0..(Len(cs) * nd * np)] ==
                    IF k = 0 THEN <<>>
                    ELSE Append(G[k - 1],
                                fact_row(tr,
                                         cs[((k - 1) \div (nd * np)) + 1],
                                         ds[(((k - 1) \div np) % nd) + 1],
                                         ps[((k - 1) % np) + 1]))
            IN G[Len(cs) * nd * np]
        F[i \in 0..Len(t)] ==
            IF i = 0 THEN <<>> ELSE F[i - 1] \o rowsOf(t[i])
    IN F[Len(t)]

NoGold == [driver_performance |-> NoTable, fact_trips_dashboard |-> NoTable]

GoldDriverColumns ==
    {"driver_id", "vehicle_type", "trips_count", "total_fare", "avg_fare"}
GoldFactColumns ==
    {"trip_id", "customer_id", "signup_date", "signup_month", "driver_id",
     "vehicle_type", "trip_fare", "paid_fare", "fare_matches"}

\* What the SELECTs of build_gold read: a missing relation or column is an error.
gold_readable(s) ==
    /\ \A e \in Entities : s[e].exists
    /\ "vehicle_type" \in s.drivers.columns

gold_tables(s) ==
    [driver_performance |-> Table(GoldDriverColumns, driver_performance(s)),
     fact_trips_dashboard |-> Table(GoldFactColumns, fact_trips_dashboard(s))]

----------------------------------------------------------------------------
(* Reconciliation                                                          *)

ReconColumns ==
    <<"silver_trips_sum", "silver_payments_sum", "gold_fact_sum",
      "trips_count_silver", "payments_count_silver", "fact_trips_count_gold",
      "fare_diff_silver", "silver_vs_gold_sum_diff", "trips_count_diff",
      "checked_at">>

reconcile_results(s, g) ==
    LET silver_trips_sum == COALESCE_SUM(Fares(s.trips.rows))
        silver_pay_sum   == COALESCE_SUM(Fares(s.payments.rows))
        gold_fact_sum    == COALESCE_SUM(Fares(g.fact_trips_dashboard.rows))
        trips_count_s    == Len(s.trips.rows)
        pays_count_s     == Len(s.payments.rows)
        fact_count_g     == Len(g.fact_trips_dashboard.rows)
    IN [silver_trips_sum |-> silver_trips_sum,
        silver_payments_sum |-> silver_pay_sum,
        gold_fact_sum |-> gold_fact_sum,
        trips_count_silver |-> trips_count_s,
        payments_count_silver |-> pays_count_s,
        fact_trips_count_gold |-> fact_count_g,
        fare_diff_silver |-> silver_trips_sum - silver_pay_sum,
        silver_vs_gold_sum_diff |-> silver_trips_sum - gold_fact_sum,
        trips_count_diff |-> trips_count_s - fact_count_g]

\* The reconciliation made strict: a non-zero difference is an error.
reconcile_readable_strict(s, g) ==
    /\ s.trips.exists /\ s.payments.exists /\ g.fact_trips_dashboard.exists
    /\ reconcile_results(s, g).fare_diff_silver = 0
    /\ reconcile_results(s, g).silver_vs_gold_sum_diff = 0
    /\ reconcile_results(s, g).trips_count_diff = 0

\* What the six SELECTs of reconcile read: a missing relation is an error,
\* whatever the values.
reconcile_readable(s, g) ==
    s.trips.exists /\ s.payments.exists /\ g.fact_trips_dashboard.exists

\* One row of a DataFrame with ReconColumns, as a line of the CSV and back.
recon_to_csv(rec) == [k \in 1..Len(ReconColumns) |-> rec[ReconColumns[k]]]
recon_read_csv(line) ==
    [c \in {ReconColumns[k] : k \in 1..Len(ReconColumns)} |->
        line[CHOOSE k \in 1..Len(ReconColumns) : ReconColumns[k] = c]]

\* The DataFrame written line by line (write = TRUE), the file read back
\* record by record (write = FALSE).
MapSeq(s, write) ==
    LET F[i \in 0..Len(s)] ==
            IF i = 0 THEN <<>>
            ELSE Append(F[i - 1], IF write THEN recon_to_csv(s[i])
                                  ELSE recon_read_csv(s[i]))
    IN F[Len(s)]

\* log_reconciliation without the read of the existing file: the CSV holds
\* the last record only.
log_reconciliation_csv_overwrite(csv, results, now) ==
    MapSeq(<<[c \in DOMAIN results \cup {"checked_at"} |->
                IF c = "checked_at" THEN now ELSE results[c]]>>, TRUE)

\* log_reconciliation(results): the CSV rewritten and the row appended to the
\* audit table.
log_reconciliation_csv(csv, results, now) ==
    LET df == <<[c \in DOMAIN results \cup {"checked_at"} |->
                   IF c = "checked_at" THEN now ELSE results[c]]>>
        existing == MapSeq(csv, FALSE)
        all == IF csv # <<>> THEN existing \o df ELSE df
    IN MapSeq(all, TRUE)

log_reconciliation_db(tbl, results, now) ==
    Append(tbl, [c \in DOMAIN results \cup {"checked_at"} |->
                   IF c = "checked_at" THEN now ELSE results[c]])

----------------------------------------------------------------------------
(* The extracts the source system may deliver                              *)

CustomerIds == {1}
DriverIds == {1, 2}
TripIds == {1, 2}
PaymentIds == {1, 2}
PaidTripIds == {1}

CustomerRows == [customer_id : CustomerIds, signup_date : {"2024-01-10", "bad"}]
DriverRows == [driver_id : DriverIds, vehicle_type : {"Sedan", "Van"}]
DriverRowsNoType == [driver_id : DriverIds]
TripRows == [trip_id : TripIds, customer_id : CustomerIds, driver_id : DriverIds,
             trip_fare : {"10", "x"}]
PaymentRows == [payment_id : PaymentIds, trip_id : PaidTripIds,
                trip_fare : {"10", "20"}]

Min(a, b) == IF a < b THEN a ELSE b
\* The extracts of at least one and at most n rows.
SeqsUpTo(S, n) == UNION {[1..k -> S] : k \in 1..n}

Extract(cols, rows) == [columns |-> cols, rows |-> rows]

DriverExtracts(n) ==
    {Extract(DriverColumns, r) : r \in SeqsUpTo(DriverRows, n)}
    \cup {Extract({"driver_id"}, r) : r \in SeqsUpTo(DriverRowsNoType, n)}

\* The two scenarios of the specification's section 8, one with duplicate
\* keys in every extract, and one whose drivers extract has no vehicle_type.
ScenarioValid ==
    [customers |-> Extract(CustomerColumns,
        <<[customer_id |-> 1, signup_date |-> "2024-01-10"]>>),
     drivers |-> Extract(DriverColumns,
        <<[driver_id |-> 1, vehicle_type |-> "Sedan"]>>),
     trips |-> Extract(TripColumns,
        <<[trip_id |-> 1, customer_id |-> 1, driver_id |-> 1, trip_fare |-> "10"]>>),
     payments |-> Extract(PaymentColumns,
        <<[payment_id |-> 1, trip_id |-> 1, trip_fare |-> "10"]>>)]

ScenarioVan ==
    [ScenarioValid EXCEPT !.drivers = Extract(DriverColumns,
        <<[driver_id |-> 1, vehicle_type |-> "Van"]>>)]

ScenarioDuplicates ==
    [customers |-> Extract(CustomerColumns,
        <<[customer_id |-> 1, signup_date |-> "bad"],
          [customer_id |-> 1, signup_date |-> "2024-01-10"]>>),
     drivers |-> Extract(DriverColumns,
        <<[driver_id |-> 1, vehicle_type |-> "Sedan"],
          [driver_id |-> 2, vehicle_type |-> "Van"],
          [driver_id |-> 1, vehicle_type |-> "Van"]>>),
     trips |-> Extract(TripColumns,
        <<[trip_id |-> 1, customer_id |-> 1, driver_id |-> 1, trip_fare |-> "10"],
          [trip_id |-> 2, customer_id |-> 1, driver_id |-> 1, trip_fare |-> "x"],
          [trip_id |-> 1, customer_id |-> 1, driver_id |-> 2, trip_fare |-> "20"]>>),
     payments |-> Extract(PaymentColumns,
        <<[payment_id |-> 1, trip_id |-> 1, trip_fare |-> "20"],
          [payment_id |-> 2, trip_id |-> 1, trip_fare |-> "10"],
          [payment_id |-> 1, trip_id |-> 2, trip_fare |-> "10"]>>)]

ScenarioNoVehicleType ==
    [ScenarioValid EXCEPT !.drivers = Extract({"driver_id"}, <<[driver_id |-> 1]>>)]

Scenarios == {ScenarioValid, ScenarioVan, ScenarioDuplicates, ScenarioNoVehicleType}

----------------------------------------------------------------------------
(* Command-line dispatch                                                   *)

Steps == {"extract", "load_bronze", "build_silver", "build_gold", "all"}
StageOrder == <<"load_bronze", "build_silver", "build_gold", "reconcile">>

\* The `if args.step in [...]` that guards each call.
StepsOf(stage) ==
    IF stage = "load_bronze" THEN {"extract", "load_bronze", "all"}
    ELSE IF stage = "build_silver" THEN {"build_silver", "all"}
    ELSE {"build_gold", "all"}

\* The calls an invocation makes, in program order.
Stages(s) == SelectSeq(StageOrder, LAMBDA st : s \in StepsOf(st))

\* The call that follows `stage` when it returns; "idle" when the script ends.
NextStage(s, stage) ==
    LET i == CHOOSE k \in 1..Len(Stages(s)) : Stages(s)[k] = stage
    IN IF i < Len(Stages(s)) THEN Stages(s)[i + 1] ELSE "idle"

\* An uncaught exception ends the script.
Raise == "idle"

\* The exception caught and the script going on to its next call.
Swallowed(stage) ==
    /\ ran' = Append(ran, stage)
    /\ pc' = NextStage(step, stage)
    /\ exit' = "error"
    /\ UNCHANGED <<step, runs, source, present>>

Returned(stage) ==
    /\ ran' = Append(ran, stage)
    /\ pc' = NextStage(step, stage)
    /\ exit' = IF NextStage(step, stage) = "idle" THEN "ok" ELSE exit
    /\ UNCHANGED <<step, runs, source, present>>

Raised(stage) ==
    /\ ran' = Append(ran, stage)
    /\ pc' = Raise
    /\ exit' = "error"
    /\ UNCHANGED <<step, runs, source, present>>

----------------------------------------------------------------------------
(* Initial states                                                          *)

EmptyStore ==
    /\ bronze = [e \in Entities |-> NoTable]
    /\ silver = [e \in Entities |-> NoTable]
    /\ gold = NoGold
    /\ audit_rejected_rows = <<>>
    /\ audit_reconciliation_log = <<>>
    /\ reconciliation_csv = <<>>
    /\ dq_csv = [e \in Entities |-> <<>>]
    /\ snapshot_log = [l \in {"bronze", "silver"} |-> [e \in Entities |-> NoSnapshot]]
    /\ built_from = [e \in Entities |-> NoTable]

\* A fresh store, no invocation yet.
Init ==
    /\ source \in Scenarios
    /\ present = Entities
    /\ EmptyStore
    /\ step = "all" /\ pc = "idle" /\ ran = <<>> /\ exit = "none" /\ runs = 0

\* A fresh store and `etl.py all` about to run on any bounded set of extracts.
InitData ==
    /\ \E c \in SeqsUpTo(CustomerRows, Min(MaxRows, MaxTotalRows - 3)) :
       \E d \in DriverExtracts(Min(MaxRows, MaxTotalRows - Len(c) - 2)) :
       \E t \in SeqsUpTo(TripRows,
                         Min(MaxRows, MaxTotalRows - Len(c) - Len(d.rows) - 1)) :
       \E p \in SeqsUpTo(PaymentRows,
                         Min(MaxRows, MaxTotalRows - Len(c) - Len(d.rows) - Len(t))) :
          source = [customers |-> Extract(CustomerColumns, c), drivers |-> d,
                    trips |-> Extract(TripColumns, t),
                    payments |-> Extract(PaymentColumns, p)]
    /\ present = Entities
    /\ EmptyStore
    /\ step = "all" /\ pc = "load_bronze" /\ ran = <<>> /\ exit = "running"
    /\ runs = MaxRuns - 1

----------------------------------------------------------------------------
(* Actions                                                                 *)

\* python etl.py <s>
Start ==
    /\ pc = "idle" /\ runs < MaxRuns
    /\ \E s \in Steps :
        /\ step' = s
        /\ pc' = Stages(s)[1]
    /\ ran' = <<>> /\ exit' = "running" /\ runs' = runs + 1
    /\ UNCHANGED <<source, present, store, audit, built_from>>

\* Between invocations the source system delivers other extracts.
SourceDelivers ==
    /\ pc = "idle"
    /\ source' \in Scenarios \ {source}
    /\ UNCHANGED <<present, store, audit, step, pc, ran, exit, runs, built_from>>

\* Between invocations an extract goes missing from BRONZE_DIR, or the missing
\* one is put back: at most one is absent at a time.
SourceChange ==
    /\ pc = "idle"
    /\ \E e \in Entities :
        present' = IF present = Entities THEN Entities \ {e} ELSE Entities
    /\ UNCHANGED <<source, store, audit, step, pc, ran, exit, runs, built_from>>

load_bronze ==
    /\ pc = "load_bronze"
    /\ bronze' = [e \in Entities |->
                    IF e \in present
                    THEN to_sql(bronze[e], source[e].columns, source[e].rows)
                    ELSE bronze[e]]
    /\ snapshot_log' =
         [snapshot_log EXCEPT !["bronze"] =
            [e \in Entities |->
               IF e \in present
               THEN log_rows_and_checksum(source[e].rows, source[e].columns, e, FALSE)
               ELSE @[e]]]
    /\ Returned("load_bronze")
    /\ UNCHANGED <<silver, gold, audit_rejected_rows, audit_reconciliation_log,
                   reconciliation_csv, dq_csv, built_from>>

build_silver ==
    /\ pc = "build_silver"
    /\ IF \A e \in Entities : bronze[e].exists
       THEN LET df == silver_frames(bronze)
                dq == dq_checks(df, bronze.drivers.columns, runs)
            IN /\ silver' = save_silver(df, bronze, silver)
               /\ audit_rejected_rows' = audit_rejected_rows \o dq
               /\ dq_csv' = [e \in Entities |->
                    <<dq[CHOOSE k \in 1..4 : dq[k].table_name = e]>>]
               /\ snapshot_log' =
                    [snapshot_log EXCEPT !["silver"] =
                       [e \in Entities |->
                          log_rows_and_checksum(df[e], ColumnsOf(bronze, e), e, TRUE)]]
               /\ built_from' = bronze
               /\ Returned("build_silver")
       ELSE /\ Raised("build_silver")
            /\ UNCHANGED <<silver, audit_rejected_rows, dq_csv, snapshot_log,
                           built_from>>
    /\ UNCHANGED <<bronze, gold, audit_reconciliation_log, reconciliation_csv>>

build_gold ==
    /\ pc = "build_gold"
    /\ IF gold_readable(silver)
       THEN /\ gold' = gold_tables(silver)
            /\ Returned("build_gold")
       ELSE /\ Raised("build_gold")
            /\ UNCHANGED gold
    /\ UNCHANGED <<bronze, silver, audit, built_from>>

reconcile ==
    /\ pc = "reconcile"
    /\ IF reconcile_readable(silver, gold)
       THEN LET results == reconcile_results(silver, gold)
            IN /\ reconciliation_csv' =
                    log_reconciliation_csv(reconciliation_csv, results, runs)
               /\ audit_reconciliation_log' =
                    log_reconciliation_db(audit_reconciliation_log, results, runs)
               /\ Returned("reconcile")
       ELSE /\ Raised("reconcile")
            /\ UNCHANGED <<reconciliation_csv, audit_reconciliation_log>>
    /\ UNCHANGED <<store, audit_rejected_rows, dq_csv, snapshot_log, built_from>>

\* python silver_etl.py: the Silver build as a script of its own, with no
\* test for the vehicle_type column and no audit output.
silver_etl ==
    /\ pc = "idle" /\ runs < MaxRuns
    /\ runs' = runs + 1
    /\ step' = "silver_etl"
    /\ ran' = <<"silver_etl">>
    /\ pc' = "idle"
    /\ IF /\ \A e \in Entities : bronze[e].exists
          /\ "vehicle_type" \in bronze.drivers.columns
       THEN /\ silver' = save_silver(silver_frames(bronze), bronze, silver)
            /\ built_from' = [e \in Entities |-> NoTable]
            /\ exit' = "ok"
       ELSE /\ exit' = "error"
            /\ UNCHANGED <<silver, built_from>>
    /\ UNCHANGED <<source, present, bronze, gold, audit>>

Next ==
    \/ Start
    \/ SourceDelivers
    \/ SourceChange
    \/ load_bronze
    \/ build_silver
    \/ build_gold
    \/ reconcile
    \/ silver_etl

NextData ==
    \/ load_bronze
    \/ build_silver
    \/ build_gold
    \/ reconcile
    \/ silver_etl

Spec == Init /\ [][Next]_vars
SpecData == InitData /\ [][NextData]_vars

----------------------------------------------------------------------------
(* Properties                                                              *)

\* The index of the first row of rows whose key column holds v.
FirstIndex(rows, key, v) ==
    CHOOSE i \in 1..Len(rows) :
        rows[i][key] = v /\ \A j \in 1..(i - 1) : rows[j][key] # v

\* The row deduplication keeps for key value v: the first one.
Kept(rows, key, v) == rows[FirstIndex(rows, key, v)]

AllBronze == \A e \in Entities : bronze[e].exists
AllSilver == \A e \in Entities : silver[e].exists

\* Under SpecData the Bronze tables are written once, so a Silver table that
\* exists was built from the Bronze tables of the state.
HasVehicleType == "vehicle_type" \in bronze.drivers.columns

InvalidDriverRows ==
    {i \in 1..Len(bronze.drivers.rows) :
        bronze.drivers.rows[i].vehicle_type \notin VALID_VEHICLE_TYPES}

\* C1 as stated: any Bronze driver row with an invalid vehicle_type keeps
\* every trip with its driver_id, and every payment of such a trip, out of
\* Silver.
C1_AnyInvalidRowCascades ==
    (AllSilver /\ HasVehicleType) =>
        \A i \in InvalidDriverRows :
            LET id == bronze.drivers.rows[i].driver_id
                theirTrips == Column(isin(bronze.trips.rows, "driver_id", {id}),
                                     "trip_id")
            IN /\ id \notin Column(silver.trips.rows, "driver_id")
               /\ Column(silver.payments.rows, "trip_id") \cap theirTrips = {}

\* The driver ids whose kept (first) Bronze row has an invalid vehicle_type.
DroppedDrivers ==
    {id \in Column(bronze.drivers.rows, "driver_id") :
        Kept(bronze.drivers.rows, "driver_id", id).vehicle_type
            \notin VALID_VEHICLE_TYPES}

\* The trip ids whose kept (first) Bronze row references a dropped driver.
TripsOfDroppedDrivers ==
    {id \in Column(bronze.trips.rows, "trip_id") :
        Kept(bronze.trips.rows, "trip_id", id).driver_id \in DroppedDrivers}

\* C1, amended: when the row deduplication keeps for a driver_id has an
\* invalid vehicle_type, no Silver trip references that driver_id and no
\* Silver payment references a trip whose kept row references that driver.
C1_KeptInvalidRowCascades ==
    (AllSilver /\ HasVehicleType) =>
        /\ Column(silver.trips.rows, "driver_id") \cap DroppedDrivers = {}
        /\ Column(silver.trips.rows, "trip_id") \cap TripsOfDroppedDrivers = {}
        /\ Column(silver.payments.rows, "trip_id") \cap TripsOfDroppedDrivers = {}

\* A dropped driver with a trip and that trip with a payment, Silver built.
C1_Witness ==
    /\ AllSilver /\ HasVehicleType
    /\ TripsOfDroppedDrivers # {}
    /\ Column(bronze.payments.rows, "trip_id") \cap TripsOfDroppedDrivers # {}
    /\ silver.payments.rows # bronze.payments.rows

KeyOf(e) ==
    IF e = "customers" THEN "customer_id"
    ELSE IF e = "drivers" THEN "driver_id"
    ELSE IF e = "trips" THEN "trip_id"
    ELSE "payment_id"

\* The Bronze row a Silver row of entity e comes from, with the columns the
\* Silver build coerces set to the Silver row's values.
KeptAs(e, r) ==
    LET b == Kept(bronze[e].rows, KeyOf(e), r[KeyOf(e)])
    IN IF e = "customers" THEN [b EXCEPT !.signup_date = to_datetime(@)]
       ELSE IF e = "drivers" THEN b
       ELSE [b EXCEPT !.trip_fare = to_numeric(@)]

\* C6: deduplication turns the N Bronze rows of an entity with K distinct keys
\* into K rows, the first Bronze row of each key, in Bronze order; and every
\* row of a Silver table is the first Bronze row of its key, no key twice.
C6_DedupKeepsFirst ==
    AllBronze =>
        \A e \in Entities :
            LET rows == bronze[e].rows
                key  == KeyOf(e)
                keys == Column(rows, key)
                out  == dedupe_by_pks(bronze)[e]
                s    == silver[e].rows
            IN /\ Len(out) = Cardinality(keys)
               /\ \A v \in keys : \E i \in 1..Len(out) : out[i] = Kept(rows, key, v)
               /\ \A i, j \in 1..Len(out) :
                     i < j => FirstIndex(rows, key, out[i][key])
                              < FirstIndex(rows, key, out[j][key])
               /\ AllSilver =>
                     /\ \A i \in 1..Len(s) : s[i] = KeptAs(e, s[i])
                     /\ \A i, j \in 1..Len(s) : s[i][key] = s[j][key] => i = j
                     /\ e = "customers" => Len(s) = Cardinality(keys)

\* Two customer rows with one key and different dates, and Silver built.
C6_Witness ==
    /\ AllSilver
    /\ Len(bronze.customers.rows) = 2
    /\ bronze.customers.rows[1] # bronze.customers.rows[2]
    /\ Cardinality(Column(bronze.customers.rows, "customer_id")) = 1
    /\ Len(silver.customers.rows) = 1

\* C3 as stated: the fact table has each Silver trip_id exactly once, and the
\* trips_count_diff that reconcile records is 0.
C3_OneFactRowPerTrip ==
    gold.fact_trips_dashboard.exists =>
        LET f == gold.fact_trips_dashboard.rows
        IN /\ Column(f, "trip_id") = Column(silver.trips.rows, "trip_id")
           /\ \A i, j \in 1..Len(f) : f[i].trip_id = f[j].trip_id => i = j
           /\ \A k \in 1..Len(audit_reconciliation_log) :
                 audit_reconciliation_log[k].trips_count_diff = 0

\* C4 as stated: fare_matches is true iff the payment's fare equals the trip's,
\* and false for a trip with no payment.
C4_FalseWithoutPayment ==
    gold.fact_trips_dashboard.exists =>
        \A k \in 1..Len(gold.fact_trips_dashboard.rows) :
            LET r == gold.fact_trips_dashboard.rows[k]
            IN /\ r.fare_matches = "true" <=>
                    (r.paid_fare # NULL /\ r.paid_fare = r.trip_fare)
               /\ r.trip_id \notin Column(silver.payments.rows, "trip_id")
                    => r.fare_matches = "false"

\* C4, amended: fare_matches is true iff the trip has a payment and both fares
\* are present and equal; it is NULL, not false, when the trip has no payment
\* or either fare is null; it is false when both are present and differ.
C4_NullWithoutPayment ==
    gold.fact_trips_dashboard.exists =>
        \A k \in 1..Len(gold.fact_trips_dashboard.rows) :
            LET r == gold.fact_trips_dashboard.rows[k]
                t == Kept(silver.trips.rows, "trip_id", r.trip_id)
                p == isin(silver.payments.rows, "trip_id", {r.trip_id})
                agrees(paid) ==
                    /\ r.paid_fare = paid
                    /\ r.fare_matches = "true" <=>
                          (paid # NULL /\ t.trip_fare # NULL /\ paid = t.trip_fare)
                    /\ r.fare_matches = SQLNULL <=>
                          (paid = NULL \/ t.trip_fare = NULL)
                    /\ r.fare_matches = "false" <=>
                          (paid # NULL /\ t.trip_fare # NULL /\ paid # t.trip_fare)
            IN IF p = <<>> THEN agrees(NULL)
               ELSE \E i \in 1..Len(p) : agrees(p[i].trip_fare)

\* Gold built with a trip that has a fare and no payment beside a trip whose
\* payment matches.
C4_Witness ==
    /\ gold.fact_trips_dashboard.exists
    /\ \E k \in 1..Len(gold.fact_trips_dashboard.rows) :
          LET r == gold.fact_trips_dashboard.rows[k]
          IN /\ r.trip_id \notin Column(silver.payments.rows, "trip_id")
             /\ r.trip_fare # NULL
             /\ r.fare_matches = SQLNULL
    /\ \E k \in 1..Len(gold.fact_trips_dashboard.rows) :
          gold.fact_trips_dashboard.rows[k].fare_matches = "true"

TripsOfDriver(id) == isin(silver.trips.rows, "driver_id", {id})

\* C5 as stated: one row per driver_id, trips_count the number of Silver trips
\* of the driver, total_fare the sum of their non-null fares.
C5_TotalIsSum ==
    gold.driver_performance.exists =>
        LET g == gold.driver_performance.rows
        IN \A i \in 1..Len(g) :
              /\ \A j \in 1..Len(g) : g[j].driver_id = g[i].driver_id => i = j
              /\ g[i].trips_count = Len(TripsOfDriver(g[i].driver_id))
              /\ g[i].total_fare
                   = SumSeq(NonNull(Fares(TripsOfDriver(g[i].driver_id))))

\* C5, amended: one row per driver_id, trips_count the number of Silver trips
\* of the driver (null fares included), total_fare the sum of their non-null
\* fares when there is one, and NULL when every fare of the driver is null.
C5_TotalIsSumOrNull ==
    gold.driver_performance.exists =>
        LET g == gold.driver_performance.rows
        IN \A i \in 1..Len(g) :
              LET fares == Fares(TripsOfDriver(g[i].driver_id))
                  some == \E k \in 1..Len(fares) : fares[k] # NULL
              IN /\ \A j \in 1..Len(g) : g[j].driver_id = g[i].driver_id => i = j
                 /\ g[i].trips_count = Len(fares)
                 /\ g[i].trips_count > 0
                 /\ some => g[i].total_fare = SumSeq(NonNull(fares))
                 /\ ~some => g[i].total_fare = NULL

\* Gold built with a driver of two trips, one fare null, and a driver whose
\* only fare is null.
C5_Witness ==
    /\ gold.driver_performance.exists
    /\ \E i \in 1..Len(gold.driver_performance.rows) :
          LET r == gold.driver_performance.rows[i]
          IN r.trips_count = 2 /\ r.total_fare = 10

IsPrefix(s, t) == Len(s) <= Len(t) /\ SubSeq(t, 1, Len(s)) = s
Absent == Entities \ present

\* C2 as stated: in an `all` invocation with one extract absent, load_bronze
\* loads the extracts that are there and leaves the absent entity's table
\* alone, and no stage of the invocation raises.
C2_MissingInputNonFatal ==
    [][(/\ step = "all" /\ pc # "idle"
        /\ Cardinality(Absent) = 1
        /\ "vehicle_type" \in source.drivers.columns)
       => /\ exit' # "error"
          /\ pc = "load_bronze" =>
                \A e \in Entities :
                    bronze'[e] = IF e \in present
                                 THEN Table(source[e].columns, source[e].rows)
                                 ELSE bronze[e]]_vars

\* C7: build_silver on the Bronze tables the last build_silver read leaves the
\* four Silver tables, and the row counts and checksums logged for them, as
\* they are.
C7_SilverIdempotent ==
    [][(pc = "build_silver" /\ built_from = bronze)
       => /\ silver' = silver
          /\ snapshot_log'["silver"] = snapshot_log["silver"]]_vars

\* A second build_silver in a row has run, on tables that lose rows in it.
C7_Witness ==
    /\ built_from = bronze
    /\ Len(audit_rejected_rows) >= 8
    /\ step = "build_silver" /\ exit = "ok"
    /\ silver.trips.rows # <<>>
    /\ Len(silver.drivers.rows) < Len(bronze.drivers.rows)

C9_StageOrder ==
    /\ [](/\ step \in Steps => IsPrefix(ran, Stages(step))
          /\ step = "all" => IsPrefix(ran, StageOrder)
          /\ (step \in Steps /\ pc # "idle") =>
                /\ exit = "running"
                /\ Len(ran) < Len(Stages(step))
                /\ pc = Stages(step)[Len(ran) + 1]
          /\ exit = "error" => pc = "idle")
    /\ [][(exit = "error" /\ runs' = runs) => UNCHANGED <<store, audit, ran, pc>>]_vars

\* An `all` invocation whose build_gold raised: reconcile was not entered.
C9_Witness ==
    /\ step = "all" /\ exit = "error" /\ pc = "idle"
    /\ ran = <<"load_bronze", "build_silver", "build_gold">>

============================================================================
